---- MODULE Spec2Model ----
(***************************************************************************)
(* Helicopter fuel-injection digital twin (backend/main.py).               *)
(*                                                                         *)
(* Units.  rpm is an integer.  Every float field of a telemetry dict       *)
(* (throttle, fuel_pressure, fuel_temp, flow_rate) is carried in           *)
(* thousandths (1.23 is 1230), so that round(x, 2) and the unrounded       *)
(* product flow_rate * 0.3 are both integers.  Arithmetic is exact; the    *)
(* binary representation error of Python floats is not modelled.           *)
(*                                                                         *)
(* Python values.  A dict is a record whose DOMAIN is the set of keys it   *)
(* holds; True, False and None in the "anomaly" field are the strings      *)
(* "True", "False" and "None"; the float "score" is abstracted to its      *)
(* sign class ("negative", "nonnegative") or "None".                       *)
(***************************************************************************)
EXTENDS Integers, Sequences, FiniteSets, TLC

VARIABLES
    model,      \* the module-level name `model`: 0 is None, n > 0 the n-th artefact
    modelFile,  \* anomaly_model.joblib on disk: 0 is absent, n > 0 the n-th artefact
    retrains,   \* number of fits train_anomaly_model has completed in this process
    nStored,    \* number of documents in collection (telemetry_logs)
    loopPc,     \* the background thread running mqtt_publish_loop
    outcome,    \* what the most recent invocation did (response, record handed over)
    pc,         \* position of the single-function runs (SpecDiag, SpecFault, SpecRul)
    heap,       \* dict objects by identity, for the runs of inject_fault
    arg,        \* argument of the function under run
    ret,        \* its return value
    clock,      \* seconds of UTC time, as datetime.now(timezone.utc) reads it
    loopTelemetry,  \* the dict `telemetry` of the pass mqtt_publish_loop is in
    transport,  \* payloads handed to mqtt_client.publish, in order
    storage,    \* documents mqtt_publish_loop inserted into collection, in order
    samples     \* history: the samples mqtt_publish_loop has produced, in order

loopVars == <<clock, loopTelemetry, transport, storage, samples>>
sysVars == <<model, modelFile, retrains, nStored, loopPc, outcome, loopVars>>
fnVars == <<pc, heap, arg, ret>>
vars == <<model, modelFile, retrains, nStored, loopPc, outcome, pc, heap, arg, ret,
          clock, loopTelemetry, transport, storage, samples>>

(***************************************************************************)
(* Bounds of the model.                                                    *)
(***************************************************************************)
\* How far below and above the training threshold the document count ranges.
StoredSlack == 2
\* Fits of a new artefact per run of the process.
MaxRetrains == 2
\* Longest list of anomaly timestamps handed to estimate_rul.
MaxTimestamps == 3
\* Runs of equal anomaly records a stored history is made of.
MaxRuns == 3
\* Passes of `while True:` followed step by step.
MaxTicks == 2
\* Seconds a pass may take beyond its sleep.
MaxLag == 1

(***************************************************************************)
(* Program constants.                                                      *)
(***************************************************************************)
\* train_anomaly_model: `if len(data) < 20`
MinTrainRecords == 20
\* estimate_rul: `int(avg_days_between_anomalies * 2)`
RulMultiplier == 2
\* maintenance_suggestions: `.limit(100)`
MaintenanceLimit == 100
\* mqtt_publish_loop: `time.sleep(10)`
SleepSeconds == 10

PyNone == "None"
PyTrue == "True"
PyFalse == "False"

(***************************************************************************)
(* round(n / d, 2), in thousandths, for d > 0: the nearest hundredth, a    *)
(* tie going to the even one.                                              *)
(***************************************************************************)
RoundHalfEven(n, d) ==
    LET q == n \div d
        r == n - q * d
    IN  IF 2 * r < d THEN q
        ELSE IF 2 * r > d THEN q + 1
        ELSE IF q % 2 = 0 THEN q ELSE q + 1

round2(n, d) == 10 * RoundHalfEven(100 * n, d)

(***************************************************************************)
(* simulate_fuel_system.  A draw d fixes the outcome of every call to      *)
(* random: d.rpm = randint(1500, 4000); d.up, d.ut, d.uf the three         *)
(* uniform() noises in thousandths; d.excursion says whether               *)
(* random.random() < 0.1 and which band random.choice picked; d.band the   *)
(* uniform() value drawn inside that band.  The timestamp is not carried.  *)
(***************************************************************************)
simulate_fuel_system(d) ==
    LET rpm == d.rpm
        throttle == round2(rpm - 1500, 25)
        fuel_pressure == round2(2500 + rpm + d.up, 1000)
        normal_temp == round2(20000 + 5 * rpm + d.ut, 1000)
        fuel_temp == IF d.excursion = "none" THEN normal_temp
                     ELSE round2(d.band, 1000)
        flow_rate == round2(throttle + 10 * d.uf, 10000)
    IN  [rpm |-> rpm, throttle |-> throttle, fuel_pressure |-> fuel_pressure,
         fuel_temp |-> fuel_temp, flow_rate |-> flow_rate]

\* The draws explored: rpm at both ends and inside its range, noises at the
\* ends and inside theirs (off the hundredths grid, so that rounding acts).
RpmDraws == {1500, 4000}
PressureNoise == {-196, 200}
TempNoise == {4}
FlowNoise == {104, 996}
LowBand == {-20004}
HighBand == {56004}
Draws ==
    {[rpm |-> r, up |-> p, ut |-> t, uf |-> f, excursion |-> "none", band |-> 0] :
        r \in RpmDraws, p \in PressureNoise, t \in TempNoise, f \in FlowNoise}
    \cup
    {[rpm |-> r, up |-> p, ut |-> t, uf |-> f, excursion |-> "low", band |-> b] :
        r \in RpmDraws, p \in PressureNoise, t \in TempNoise, f \in FlowNoise,
        b \in LowBand}
    \cup
    {[rpm |-> r, up |-> p, ut |-> t, uf |-> f, excursion |-> "high", band |-> b] :
        r \in RpmDraws, p \in PressureNoise, t \in TempNoise, f \in FlowNoise,
        b \in HighBand}

(***************************************************************************)
(* inject_fault.  The statements of each branch act on the dict the        *)
(* caller passed; u is the uniform(0, 2) noise of throttle_spike, in       *)
(* thousandths.  InjectFaultFields is the dict's contents afterwards;      *)
(* inject_fault is the call on the heap: it stores through the reference   *)
(* it was given and returns that reference.                                *)
(***************************************************************************)
FaultTypes == {"injector_clog", "sensor_failure", "fuel_leak", "rpm_surge",
               "throttle_spike", "afterburner"}
SpikeNoise == {0, 1996}
\* random.uniform is called in the throttle_spike branch only.
NoiseFor(fault_type) == IF fault_type = "throttle_spike" THEN SpikeNoise ELSE {0}
UnknownFaultNote == " Unknown fault type  no effect"

SetKey(t, k, v) == [x \in DOMAIN t \cup {k} |-> IF x = k THEN v ELSE t[x]]

RpmSurgeNoRecompute(t) == [t EXCEPT !.rpm = @ + 2000]

RpmSurge(t) ==
    LET t1 == [t EXCEPT !.rpm = @ + 2000]
    IN  [t1 EXCEPT !.throttle = round2(t1.rpm - 1500, 25)]

InjectFaultFields(t, fault_type, u) ==
    IF fault_type = "injector_clog" THEN
        [t EXCEPT !.flow_rate = (@ * 3) \div 10]
    ELSE IF fault_type = "sensor_failure" THEN
        [t EXCEPT !.fuel_temp = 999000]
    ELSE IF fault_type = "fuel_leak" THEN
        [t EXCEPT !.fuel_pressure = @ - 2000]
    ELSE IF fault_type = "rpm_surge" THEN
        RpmSurge(t)
    ELSE IF fault_type = "throttle_spike" THEN
        [t EXCEPT !.throttle = 100000, !.flow_rate = round2(10000 + u, 1000)]
    ELSE
        SetKey(t, "note", UnknownFaultNote)

InjectFaultOnCopy(h, ref, fault_type, u) ==
    LET fresh == 1 + Cardinality(DOMAIN h)
    IN  [heap |-> h @@ (fresh :> InjectFaultFields(h[ref], fault_type, u)),
         ret |-> fresh]

inject_fault(h, ref, fault_type, u) ==
    [heap |-> [h EXCEPT ![ref] = InjectFaultFields(h[ref], fault_type, u)],
     ret |-> ref]

(***************************************************************************)
(* infer_probable_cause: the if/elif chain.  The walrus of the seventh     *)
(* test binds the whole conjunction, so the test is the conjunction.       *)
(***************************************************************************)
CauseInjectorClog == "Fuel injector clog (low flow rate)"
CauseOverheating == "Overheating sensor or coolant failure"
CauseCold == " sensor breakdown or coolant failure"
CauseLeakOrPump == "Possible fuel leak or pump failure"
CauseRpmSurge == "Abnormal RPM surge  throttle malfunction"
CauseThrottleStuck == "Throttle stuck open  excessive fuel injection"
CauseUnknown == "Anomaly detected, cause unknown"

GetThrottle(t) == IF "throttle" \in DOMAIN t THEN t.throttle ELSE 0

InferTempBeforeClog(t) ==
    IF t.fuel_temp > 56000 THEN CauseOverheating
    ELSE IF t.flow_rate < 2000 /\ t.fuel_pressure > 4000 THEN CauseInjectorClog
    ELSE IF t.fuel_temp < -20000 THEN CauseCold
    ELSE IF t.fuel_pressure < 2000 THEN CauseLeakOrPump
    ELSE IF t.fuel_pressure > 4000 THEN CauseLeakOrPump
    ELSE IF t.rpm > 5000 THEN CauseRpmSurge
    ELSE IF GetThrottle(t) > 90000 /\ t.flow_rate > 8000 THEN CauseThrottleStuck
    ELSE CauseUnknown

infer_probable_cause(t) ==
    IF t.flow_rate < 2000 /\ t.fuel_pressure > 4000 THEN CauseInjectorClog
    ELSE IF t.fuel_temp > 56000 THEN CauseOverheating
    ELSE IF t.fuel_temp < -20000 THEN CauseCold
    ELSE IF t.fuel_pressure < 2000 THEN CauseLeakOrPump
    ELSE IF t.fuel_pressure > 4000 THEN CauseLeakOrPump
    ELSE IF t.rpm > 5000 THEN CauseRpmSurge
    ELSE IF GetThrottle(t) > 90000 /\ t.flow_rate > 8000 THEN CauseThrottleStuck
    ELSE CauseUnknown

(***************************************************************************)
(* estimate_rul.  Timestamps are in hours; timedelta.days is the floor of  *)
(* the difference in days.  int(days_covered / total * 2) is the floor of  *)
(* the exact quotient: the operands are positive, and whenever the         *)
(* quotient is an integer the float division is exact.                     *)
(***************************************************************************)
RulSentinel == "Component operating normally. No critical failure predicted."

Max(a, b) == IF a >= b THEN a ELSE b

TimedeltaDays(later, earlier) == (later - earlier) \div 24

total_anomalies(ts) == Len(ts)

days_covered(ts) == Max(1, TimedeltaDays(ts[Len(ts)], ts[1]))

EstimateRulPerGap(ts) ==
    IF ts = << >> THEN [message |-> RulSentinel]
    ELSE [rul |-> (days_covered(ts) * RulMultiplier) \div Max(1, total_anomalies(ts) - 1)]

estimate_rul(ts) ==
    IF ts = << >> THEN [message |-> RulSentinel]
    ELSE [rul |-> (days_covered(ts) * RulMultiplier) \div total_anomalies(ts)]

(***************************************************************************)
(* Runs of a single function.  The process state is idle throughout.       *)
(***************************************************************************)
NoOutcome ==
    [by |-> "none", response |-> "none", raised |-> "none", published |-> << >>,
     handed |-> << >>, usedModel |-> 0, seen |-> 0, fitted |-> FALSE]

\* The loop followed step by step has not produced anything.
LoopIdle ==
    /\ clock = 0
    /\ loopTelemetry = << >>
    /\ transport = << >>
    /\ storage = << >>
    /\ samples = << >>

SysIdle ==
    /\ LoopIdle
    /\ model = 0
    /\ modelFile = 0
    /\ retrains = 0
    /\ nStored = 0
    /\ loopPc = "not_started"
    /\ outcome = NoOutcome

FnIdle ==
    /\ pc = "start"
    /\ heap = << >>
    /\ arg = << >>
    /\ ret = << >>

FnInit == SysIdle /\ FnIdle

\* ---- infer_probable_cause on any feature vector ----
RpmInputs == {5000, 5001}
ThrottleInputs == {90000, 90010}
PressureInputs == {1990, 2000, 4000, 4010}
TempInputs == {-20010, -20000, 56000, 56010}
FlowInputs == {1990, 2000, 8000, 8010}
FeatureVectors ==
    {[rpm |-> r, throttle |-> th, fuel_pressure |-> p, fuel_temp |-> t, flow_rate |-> f] :
        r \in RpmInputs, th \in ThrottleInputs, p \in PressureInputs,
        t \in TempInputs, f \in FlowInputs}

DiagPick ==
    /\ pc \in {"start", "returned"}
    /\ \E t \in FeatureVectors : arg' = t
    /\ pc' = "picked"
    /\ UNCHANGED <<heap, ret>>
    /\ UNCHANGED sysVars

DiagCall ==
    /\ pc = "picked"
    /\ ret' = infer_probable_cause(arg)
    /\ pc' = "returned"
    /\ UNCHANGED <<heap, arg>>
    /\ UNCHANGED sysVars

DiagNext == DiagPick \/ DiagCall

SpecDiag == FnInit /\ [][DiagNext]_vars

\* ---- simulate_fuel_system followed by inject_fault, as in simulate_fault ----
FaultSimulate ==
    /\ pc \in {"start", "returned"}
    /\ \E d \in Draws, ft \in FaultTypes :
          LET ref == 1
              telemetry == simulate_fuel_system(d)
          IN  /\ heap' = (ref :> telemetry)
              /\ arg' = [ref |-> ref, before |-> telemetry, fault_type |-> ft]
    /\ pc' = "simulated"
    /\ ret' = << >>
    /\ UNCHANGED sysVars

FaultInject ==
    /\ pc = "simulated"
    /\ \E u \in NoiseFor(arg.fault_type) :
          LET r == inject_fault(heap, arg.ref, arg.fault_type, u)
          IN  /\ heap' = r.heap
              /\ ret' = r.ret
    /\ pc' = "returned"
    /\ UNCHANGED arg
    /\ UNCHANGED sysVars

FaultNext == FaultSimulate \/ FaultInject

SpecFault == FnInit /\ [][FaultNext]_vars

\* ---- estimate_rul on a time-ordered list of anomaly timestamps (hours) ----
TimestampDraws == {0, 23, 24, 240, 263, 264}

IsTimeOrdered(ts) == \A i \in 1..(Len(ts) - 1) : ts[i] <= ts[i + 1]

TimestampLists ==
    {ts \in UNION {[1..n -> TimestampDraws] : n \in 0..MaxTimestamps} : IsTimeOrdered(ts)}

RulPick ==
    /\ pc \in {"start", "returned"}
    /\ \E ts \in TimestampLists : arg' = ts
    /\ pc' = "picked"
    /\ UNCHANGED <<heap, ret>>
    /\ UNCHANGED sysVars

RulCall ==
    /\ pc = "picked"
    /\ ret' = estimate_rul(arg)
    /\ pc' = "returned"
    /\ UNCHANGED <<heap, arg>>
    /\ UNCHANGED sysVars

RulNext == RulPick \/ RulCall

SpecRul == FnInit /\ [][RulNext]_vars

(***************************************************************************)
(* The running process.                                                    *)
(*                                                                         *)
(* `model` is bound once, when the module is imported, to the artefact on  *)
(* disk (or to None when load fails); no statement of the program assigns  *)
(* the module-level name afterwards.  The background thread and the        *)
(* request handlers (run concurrently by the server's thread pool) share   *)
(* only that name and the collection, and every handler works on a dict    *)
(* of its own, so each handler is one atomic step here.                    *)
(*                                                                         *)
(* outcome describes the most recent invocation: which one (by), the kind  *)
(* of response it gave, whether a call raised, the payloads it passed to   *)
(* mqtt_client.publish (published), the records it passed to               *)
(* collection.insert_one (handed), the value of `model` it read            *)
(* (usedModel) and, for /retrain, the document count it read (seen) and    *)
(* whether a model was fitted and dumped (fitted).                         *)
(***************************************************************************)
NormalOperation == "Normal operation"
SafetyNone == "No safety action required."
SafetyDefault == "Follow standard emergency procedures. Refer to flight manual."

\* infer_safety_measures: recommendations.get(cause, default); the messages
\* are carried without their leading pictograph.
InferSafetyKeyedByClogLabel(cause) ==
    IF cause = CauseInjectorClog THEN
        "Reduce throttle immediately. Prepare for possible engine power loss. Return to base if feasible."
    ELSE IF cause = NormalOperation THEN
        "No safety action required. System operating within safe parameters."
    ELSE SafetyDefault

infer_safety_measures(cause) ==
    IF cause = "Fuel pressure abnormal likely injector clog" THEN
        "Reduce throttle immediately. Prepare for possible engine power loss. Return to base if feasible."
    ELSE IF cause = "Fuel temperature high possible overheating" THEN
        "Monitor engine temperature. Avoid sudden throttle increases. Prepare for emergency landing if required."
    ELSE IF cause = "Fuel flow rate inconsistent potential leak or blockage" THEN
        "Monitor fuel usage carefully. Avoid aggressive maneuvers. Notify control and prepare for early landing."
    ELSE IF cause = NormalOperation THEN
        "No safety action required. System operating within safe parameters."
    ELSE SafetyDefault

\* pred = model.predict(features)[0], score = model.decision_function(features)[0];
\* the fitted forest is opaque: pred is -1 or 1, and -1 exactly when score < 0.
Predictions == {-1, 1}
\* model.predict is called only `if model`.
PredictionsOf(m) == IF m = 0 THEN {1} ELSE Predictions

\* The draws the process model explores: one per temperature branch, at
\* either end of the rpm range.
PipelineDraws ==
    {d \in Draws : d.uf = 104 /\ d.up = 200 /\ (d.excursion = "none" \/ d.rpm = 4000)}

Score(t, pred) ==
    LET t1 == SetKey(t, "anomaly", IF pred = -1 THEN PyTrue ELSE PyFalse)
    IN  SetKey(t1, "score", IF pred = -1 THEN "negative" ELSE "nonnegative")

AddCauseAlways(t) == SetKey(t, "probable_cause", infer_probable_cause(t))

\* `if telemetry["anomaly"]: telemetry["probable_cause"] = infer_probable_cause(telemetry)`
AddCauseIfAnomaly(t) ==
    IF t.anomaly = PyTrue THEN SetKey(t, "probable_cause", infer_probable_cause(t))
    ELSE t

\* mqtt_publish_loop, from simulate_fuel_system() to the record to store.
LoopRecordNoElse(d, m, pred) ==
    LET telemetry == simulate_fuel_system(d)
    IN  IF m # 0 THEN AddCauseIfAnomaly(Score(telemetry, pred)) ELSE telemetry

LoopRecord(d, m, pred) ==
    LET telemetry == simulate_fuel_system(d)
    IN  IF m # 0 THEN AddCauseIfAnomaly(Score(telemetry, pred))
        ELSE SetKey(SetKey(telemetry, "anomaly", PyNone), "score", PyNone)

\* The reduced payload handed to mqtt_client.publish.
MqttPayload(t) ==
    [k \in {"rpm", "throttle", "fuel_pressure", "fuel_temp", "flow_rate"} |-> t[k]]

\* predict_anomaly, past its guard.
PredictRecord(d, pred) == AddCauseIfAnomaly(Score(simulate_fuel_system(d), pred))

\* safety_recommendation, past its guard.
SafetyRecord(d, pred) ==
    LET telemetry == Score(simulate_fuel_system(d), pred)
        cause == IF telemetry.anomaly = PyTrue THEN infer_probable_cause(telemetry)
                 ELSE NormalOperation
        safety == IF telemetry.anomaly = PyTrue THEN infer_safety_measures(cause)
                  ELSE SafetyNone
    IN  SetKey(SetKey(telemetry, "probable_cause", cause), "safety_measures", safety)

\* simulate_fault: the dict is created, passed to inject_fault, and the name
\* telemetry rebound to what inject_fault returns.
SimulateFaultRecord(d, ft, u, m, pred) ==
    LET ref == 1
        h0 == (ref :> simulate_fuel_system(d))
        r == inject_fault(h0, ref, ft, u)
        telemetry == SetKey(r.heap[r.ret], "fault_type", ft)
    IN  IF m # 0 THEN Score(telemetry, pred) ELSE telemetry

\* train_anomaly_model on a collection of n documents with artefact `file` on
\* disk: the artefact on disk afterwards, and whether a model was fitted.  The
\* fitted forest is bound to a name local to the function.
train_anomaly_model(n, file) ==
    IF n < MinTrainRecords THEN [modelFile |-> file, fitted |-> FALSE]
    ELSE [modelFile |-> file + 1, fitted |-> TRUE]

\* collection.insert_one either stores the document or raises.
StorageResults == {"none", "insert"}
CanStore == nStored < MinTrainRecords + StoredSlack

Insert(fault) == nStored' = IF fault = "none" THEN nStored + 1 ELSE nStored

Init ==
    /\ modelFile \in {0, 1}
    /\ model = modelFile
    /\ retrains = 0
    /\ nStored \in (MinTrainRecords - StoredSlack)..MinTrainRecords
    /\ loopPc = "not_started"
    /\ outcome = NoOutcome
    /\ FnIdle
    /\ LoopIdle

\* start_background_mqtt: the startup event, before any request is served.
StartBackgroundMqtt ==
    /\ loopPc = "not_started"
    /\ loopPc' = "connecting"
    /\ UNCHANGED <<model, modelFile, retrains, nStored, outcome>>
    /\ UNCHANGED fnVars
    /\ UNCHANGED loopVars

\* mqtt_client.connect(BROKER, PORT), which returns or raises.
LoopConnect ==
    /\ loopPc = "connecting"
    /\ \E ok \in BOOLEAN : loopPc' = IF ok THEN "running" ELSE "dead"
    /\ UNCHANGED <<model, modelFile, retrains, nStored, outcome>>
    /\ UNCHANGED fnVars
    /\ UNCHANGED loopVars

\* One pass of `while True:`, up to time.sleep(10): the sample is published,
\* then handed to collection.insert_one.  An exception leaves the function,
\* and the thread ends.
LoopPass ==
    /\ loopPc = "running"
    /\ CanStore
    /\ \E d \in PipelineDraws, pred \in PredictionsOf(model), fault \in StorageResults :
          LET telemetry == LoopRecord(d, model, pred)
          IN  /\ outcome' = [by |-> "loop", response |-> "none", raised |-> fault,
                             published |-> <<MqttPayload(telemetry)>>,
                             handed |-> <<telemetry>>, usedModel |-> model,
                             seen |-> 0, fitted |-> FALSE]
              /\ Insert(fault)
              /\ loopPc' = IF fault = "none" THEN "running" ELSE "dead"
    /\ UNCHANGED <<model, modelFile, retrains>>
    /\ UNCHANGED fnVars
    /\ UNCHANGED loopVars

Serving == loopPc # "not_started"

Response(fault) == IF fault = "none" THEN "ok" ELSE "exception"

GetTelemetry ==
    /\ Serving
    /\ CanStore
    /\ \E d \in PipelineDraws, fault \in StorageResults :
          /\ outcome' = [by |-> "telemetry", response |-> Response(fault),
                         raised |-> fault, published |-> << >>,
                         handed |-> <<simulate_fuel_system(d)>>,
                         usedModel |-> 0, seen |-> 0, fitted |-> FALSE]
          /\ Insert(fault)
    /\ UNCHANGED <<model, modelFile, retrains, loopPc>>
    /\ UNCHANGED fnVars
    /\ UNCHANGED loopVars

Refusal(by) ==
    [by |-> by, response |-> "error", raised |-> "none", published |-> << >>,
     handed |-> << >>,
     usedModel |-> 0, seen |-> 0, fitted |-> FALSE]

PredictAnomaly ==
    /\ Serving
    /\ CanStore
    /\ IF model = 0
       THEN /\ outcome' = Refusal("predict")
            /\ UNCHANGED nStored
       ELSE \E d \in PipelineDraws, pred \in Predictions, fault \in StorageResults :
               /\ outcome' = [by |-> "predict", response |-> Response(fault),
                              raised |-> fault, published |-> << >>,
                              handed |-> <<PredictRecord(d, pred)>>,
                              usedModel |-> model, seen |-> 0, fitted |-> FALSE]
               /\ Insert(fault)
    /\ UNCHANGED <<model, modelFile, retrains, loopPc>>
    /\ UNCHANGED fnVars
    /\ UNCHANGED loopVars

SafetyRecommendation ==
    /\ Serving
    /\ CanStore
    /\ IF model = 0
       THEN /\ outcome' = Refusal("safety")
            /\ UNCHANGED nStored
       ELSE \E d \in PipelineDraws, pred \in Predictions, fault \in StorageResults :
               /\ outcome' = [by |-> "safety", response |-> Response(fault),
                              raised |-> fault, published |-> << >>,
                              handed |-> <<SafetyRecord(d, pred)>>,
                              usedModel |-> model, seen |-> 0, fitted |-> FALSE]
               /\ Insert(fault)
    /\ UNCHANGED <<model, modelFile, retrains, loopPc>>
    /\ UNCHANGED fnVars
    /\ UNCHANGED loopVars

SimulateFault ==
    /\ Serving
    /\ CanStore
    /\ \E d \in PipelineDraws, ft \in FaultTypes, pred \in PredictionsOf(model),
          fault \in StorageResults :
        \E u \in NoiseFor(ft) :
          /\ outcome' = [by |-> "simulate_fault", response |-> Response(fault),
                         raised |-> fault, published |-> << >>,
                         handed |-> <<SimulateFaultRecord(d, ft, u, model, pred)>>,
                         usedModel |-> model, seen |-> 0, fitted |-> FALSE]
          /\ Insert(fault)
    /\ UNCHANGED <<model, modelFile, retrains, loopPc>>
    /\ UNCHANGED fnVars
    /\ UNCHANGED loopVars

\* retrain_model: calls train_anomaly_model, then returns its one message.
RetrainModel ==
    /\ Serving
    /\ nStored < MinTrainRecords \/ retrains < MaxRetrains
    /\ LET r == train_anomaly_model(nStored, modelFile)
       IN  /\ modelFile' = r.modelFile
           /\ retrains' = IF r.fitted THEN retrains + 1 ELSE retrains
           /\ outcome' = [by |-> "retrain", response |-> "retrained", raised |-> "none",
                          published |-> << >>, handed |-> << >>, usedModel |-> 0, seen |-> nStored,
                          fitted |-> r.fitted]
    /\ UNCHANGED <<model, nStored, loopPc>>
    /\ UNCHANGED fnVars
    /\ UNCHANGED loopVars

Next ==
    \/ StartBackgroundMqtt
    \/ LoopConnect
    \/ LoopPass
    \/ GetTelemetry
    \/ PredictAnomaly
    \/ SafetyRecommendation
    \/ SimulateFault
    \/ RetrainModel

Spec == Init /\ [][Next]_vars

(***************************************************************************)
(* Properties.                                                             *)
(***************************************************************************)

\* ---- C1 ----
\* The cascade as the specification lists it: rule i's condition and cause.
RuleHolds(i, t) ==
    CASE i = 1 -> t.flow_rate < 2000 /\ t.fuel_pressure > 4000
      [] i = 2 -> t.fuel_temp > 56000
      [] i = 3 -> t.fuel_temp < -20000
      [] i = 4 -> t.fuel_pressure < 2000
      [] i = 5 -> t.fuel_pressure > 4000
      [] i = 6 -> t.rpm > 5000
      [] i = 7 -> t.throttle > 90000 /\ t.flow_rate > 8000
      [] OTHER -> TRUE

RuleCause(i) ==
    <<CauseInjectorClog, CauseOverheating, CauseCold, CauseLeakOrPump, CauseLeakOrPump,
      CauseRpmSurge, CauseThrottleStuck, CauseUnknown>>[i]

FirstRule(t) == CHOOSE i \in 1..8 : RuleHolds(i, t) /\ \A j \in 1..(i - 1) : ~RuleHolds(j, t)

\* C1: for every feature vector infer_probable_cause returns the cause of the
\* first rule, in the order 1..8, whose condition holds; when rule 1's
\* condition holds the injector-clog cause is returned whatever the other
\* fields are.
C1_FirstMatchCascade ==
    pc = "returned" =>
        /\ ret = RuleCause(FirstRule(arg))
        /\ RuleHolds(1, arg) => ret = CauseInjectorClog

\* Rule 1 holds together with rules 2 and 6, and rule 1's cause is returned.
C1_Witness ==
    /\ pc = "returned"
    /\ RuleHolds(1, arg) /\ RuleHolds(2, arg) /\ RuleHolds(6, arg)
    /\ ret = CauseInjectorClog

\* ---- C2 ----
\* throttle == round((rpm - 1500) / 25, 2): rpm is an integer, so the quotient
\* has at most two decimals and the rounding leaves it as it is.
ThrottleMatchesRpm(t) == 25 * t.throttle = 1000 * (t.rpm - 1500)

\* C2 as stated: throttle == round((rpm - 1500) / 25, 2) holds for every sample
\* simulate_fuel_system produces, and still holds after inject_fault with any
\* fault type.
C2_ThrottleInvariantAnyFault ==
    /\ pc = "simulated" => ThrottleMatchesRpm(heap[arg.ref])
    /\ pc = "returned" => ThrottleMatchesRpm(heap[ret])

\* C2 amended: the equation holds for every simulated sample and after
\* inject_fault with every fault type but throttle_spike; after throttle_spike
\* throttle is 100 whatever rpm is, so the equation holds only at rpm = 4000.
C2_ThrottleInvariantExceptSpike ==
    /\ pc = "simulated" => ThrottleMatchesRpm(heap[arg.ref])
    /\ pc = "returned" /\ arg.fault_type # "throttle_spike" =>
          ThrottleMatchesRpm(heap[ret])
    /\ pc = "returned" /\ arg.fault_type = "throttle_spike" =>
          /\ heap[ret].throttle = 100000
          /\ ThrottleMatchesRpm(heap[ret]) <=> heap[ret].rpm = 4000

\* rpm_surge has raised rpm by 2000 and throttle follows the new rpm.
C2_Witness ==
    /\ pc = "returned"
    /\ arg.fault_type = "rpm_surge"
    /\ heap[ret].rpm = arg.before.rpm + 2000
    /\ heap[ret].throttle # arg.before.throttle
    /\ ThrottleMatchesRpm(heap[ret])

\* ---- C3 ----
NullOrAbsent(t, k) == k \notin DOMAIN t \/ t[k] = PyNone

C4_LoopSurvivesFailingPass ==
    outcome.by = "loop" /\ outcome.raised # "none" => loopPc = "running"

\* ---- C5 ----
\* C5: once a retrain over at least 20 stored samples has completed, the
\* in-memory model handle is the newly fitted model, and every scoring
\* operation that starts afterwards uses it.
C5_RetrainSwapsModel ==
    retrains > 0 =>
        /\ model = modelFile
        /\ outcome.by \in {"loop", "predict", "safety", "simulate_fault"}
              /\ outcome.response # "error" => outcome.usedModel = modelFile

\* ---- C6 ----
\* C6: a retrain request made while fewer than 20 records are stored is refused
\* and reported as refused to the caller, not as a successful retrain.
C6_RefusedRetrainReported ==
    outcome.by = "retrain" /\ outcome.seen < MinTrainRecords =>
        /\ ~outcome.fitted
        /\ outcome.response # "retrained"

\* ---- C7 ----
TenDaysApart(ts) == Len(ts) = 2 /\ ts[2] - ts[1] = 10 * 24

\* C7 as stated: for two timestamps 10 days apart the average gap is 10 days
\* and the estimated RUL is 20 days.
C7_TenDaysGivesTwenty ==
    pc = "returned" /\ TenDaysApart(arg) =>
        /\ days_covered(arg) = 10 * total_anomalies(arg)
        /\ ret = [rul |-> 20]

\* C7 amended: for two timestamps 10 days apart the 10 days covered are divided
\* by the 2 anomalies, an average gap of 5 days, and the estimated RUL is 10 days.
C7_TenDaysGivesTen ==
    pc = "returned" /\ TenDaysApart(arg) =>
        /\ days_covered(arg) = 5 * total_anomalies(arg)
        /\ ret = [rul |-> 10]

\* estimate_rul has returned for two timestamps 10 days apart.
C7_Witness ==
    /\ pc = "returned"
    /\ arg = <<0, 240>>
    /\ ret = [rul |-> 10]

\* ---- C8 ----
CauseOnlyIfAnomaly(t) ==
    "probable_cause" \in DOMAIN t => "anomaly" \in DOMAIN t /\ t.anomaly = PyTrue

\* C8 as stated: in every record handed to the storage sink by any pipeline,
\* probable_cause is present only if anomaly is true.
C8_CauseOnlyIfAnomalyEverywhere ==
    \A i \in 1..Len(outcome.handed) : CauseOnlyIfAnomaly(outcome.handed[i])

\* C8 amended: in every record handed to the storage sink by the loop, /predict,
\* /simulate-fault and /telemetry, probable_cause is present only if anomaly is
\* true; a record of /safety-recommendation always has probable_cause, which is
\* "Normal operation" when anomaly is false.
C8_CauseOnlyIfAnomalyExceptSafety ==
    \A i \in 1..Len(outcome.handed) :
        LET t == outcome.handed[i]
        IN  /\ outcome.by # "safety" => CauseOnlyIfAnomaly(t)
            /\ outcome.by = "safety" =>
                  /\ "probable_cause" \in DOMAIN t
                  /\ t.anomaly # PyTrue <=> t.probable_cause = NormalOperation

\* The loop has handed over an anomalous record carrying its cause.
C8_Witness ==
    /\ outcome.by = "loop"
    /\ Len(outcome.handed) = 1
    /\ "probable_cause" \in DOMAIN outcome.handed[1]
    /\ outcome.handed[1].anomaly = PyTrue

\* ---- C9 ----
\* C9: whenever the scorer flags a sample anomaly = true, in the loop or in any
\* on-demand pipeline (/simulate-fault included), the record handed to storage
\* carries a probable_cause.
C9_AnomalousRecordHasCause ==
    \A i \in 1..Len(outcome.handed) :
        LET t == outcome.handed[i]
        IN  "anomaly" \in DOMAIN t /\ t.anomaly = PyTrue => "probable_cause" \in DOMAIN t

\* ---- C10 ----
\* C10 as stated: inject_fault works on a copy: the sample passed in keeps all
\* its field values and the returned sample is a distinct object.
C10_InjectFaultCopies ==
    pc = "returned" /\ arg.fault_type \in FaultTypes =>
        /\ ret # arg.ref
        /\ heap[arg.ref] = arg.before

\* C10 amended: inject_fault works in place: for every fault type it returns
\* the object it was passed, no other object is created, and that object
\* carries the fault's change (for an unknown type, the note) after the call.
C10_InjectFaultInPlace ==
    pc = "returned" /\ arg.fault_type \in FaultTypes =>
        LET after == heap[arg.ref]
            before == arg.before
            ft == arg.fault_type
        IN  /\ ret = arg.ref
            /\ DOMAIN heap = {arg.ref}
            /\ ft = "injector_clog" => 10 * after.flow_rate = 3 * before.flow_rate
            /\ ft = "sensor_failure" => after.fuel_temp = 999000
            /\ ft = "fuel_leak" => after.fuel_pressure = before.fuel_pressure - 2000
            /\ ft = "rpm_surge" => after.rpm = before.rpm + 2000
            /\ ft = "throttle_spike" => after.throttle = 100000
            /\ ft = "afterburner" =>
                  /\ after.note = UnknownFaultNote
                  /\ \A k \in DOMAIN before : after[k] = before[k]

\* fuel_leak has lowered the pressure of the caller's own dict.
C10_Witness ==
    /\ pc = "returned"
    /\ arg.fault_type = "fuel_leak"
    /\ ret = arg.ref
    /\ heap[arg.ref].fuel_pressure = arg.before.fuel_pressure - 2000
    /\ heap[arg.ref] # arg.before

(***************************************************************************)
(* safety_recommendation on a sample the scorer has flagged: the cause     *)
(* from infer_probable_cause, the measures from infer_safety_measures.     *)
(***************************************************************************)
SafetyPick ==
    /\ pc \in {"start", "returned"}
    /\ \E t \in FeatureVectors : arg' = t
    /\ pc' = "picked"
    /\ UNCHANGED <<heap, ret>>
    /\ UNCHANGED sysVars

SafetyCall ==
    /\ pc = "picked"
    /\ LET cause == infer_probable_cause(arg)
           safety == infer_safety_measures(cause)
       IN  ret' = [probable_cause |-> cause, safety_measures |-> safety]
    /\ pc' = "returned"
    /\ UNCHANGED <<heap, arg>>
    /\ UNCHANGED sysVars

SafetyNext == SafetyPick \/ SafetyCall

SpecSafety == FnInit /\ [][SafetyNext]_vars

\* ---- C13 ----
\* C13: for each of the eight outcomes of the cascade infer_safety_measures has
\* no entry of its own and returns the default message, so every anomalous
\* sample of /safety-recommendation gets that one message whichever rule fired.
C13_EveryCauseGetsDefaultSafety ==
    /\ \A i \in 1..8 : infer_safety_measures(RuleCause(i)) = SafetyDefault
    /\ pc = "returned" =>
          /\ ret.probable_cause \in {RuleCause(i) : i \in 1..8}
          /\ ret.safety_measures = SafetyDefault

\* The throttle-stuck rule, the last but one, has fired and got the default.
C13_Witness ==
    /\ pc = "returned"
    /\ ret.probable_cause = CauseThrottleStuck
    /\ ret.safety_measures = SafetyDefault

(***************************************************************************)
(* maintenance_suggestions.  found is what                                 *)
(* collection.find({"anomaly": True}).sort("timestamp", -1) yields, most   *)
(* recent first; limit(100) keeps its head.  A Counter keeps its keys in   *)
(* the order they were first counted, and most_common() sorts its items    *)
(* by count with sorted(..., reverse=True), which is stable: items of      *)
(* equal count stay in that order.                                         *)
(***************************************************************************)
MaintenanceNone == "No recent anomalies detected. Routine maintenance recommended."
MaintenanceDefault == "General system inspection advised."

\* fault_to_maintenance.get(cause, default); messages without their pictograph.
fault_to_maintenance(cause) ==
    IF cause = "Fuel pressure drop detected" THEN
        "Inspect and replace fuel filters and pressure regulators."
    ELSE IF cause = "Fuel temperature anomaly" THEN
        "Check fuel cooling systems and thermal insulation."
    ELSE IF cause = "Flow rate fluctuation" THEN
        "Inspect injectors and clean fuel lines."
    ELSE IF cause = "RPM instability" THEN
        "Examine engine control unit and throttle sensors."
    ELSE IF cause = NormalOperation THEN
        "Routine maintenance recommended as per schedule."
    ELSE MaintenanceDefault

Limit(cursor, n) == SubSeq(cursor, 1, IF Len(cursor) < n THEN Len(cursor) ELSE n)

\* log.get("probable_cause", "Unknown")
LogCause(log) ==
    IF "probable_cause" \in DOMAIN log THEN log.probable_cause ELSE "Unknown"

\* Counter(causes): its items (key, count).  A key enters the dict at the
\* first record that carries it, so the keys stand in the order of those
\* first records.
RECURSIVE Ascending(_)
Ascending(S) ==
    IF S = {} THEN << >>
    ELSE LET m == CHOOSE x \in S : \A y \in S : x <= y
         IN  <<m>> \o Ascending(S \ {m})

CounterKeys(causes) ==
    LET inserts == {i \in 1..Len(causes) : \A j \in 1..(i - 1) : causes[j] # causes[i]}
        order == Ascending(inserts)
    IN  [k \in 1..Len(order) |-> causes[order[k]]]

Counter(causes) ==
    LET keys == CounterKeys(causes)
    IN  [j \in 1..Len(keys) |->
            [cause |-> keys[j],
             count |-> Cardinality({i \in 1..Len(causes) : causes[i] = keys[j]})]]

InsertSeq(items, p, item) ==
    SubSeq(items, 1, p - 1) \o <<item>> \o SubSeq(items, p, Len(items))

\* Where the mutant puts an item: before the items of equal count.
PlaceBeforeTies(sorted, item) ==
    LET smaller == {p \in 1..Len(sorted) : sorted[p].count <= item.count}
    IN  IF smaller = {} THEN Len(sorted) + 1
        ELSE CHOOSE p \in smaller : \A q \in smaller : p <= q

\* Where a stable descending sort puts an item that came after those of sorted:
\* before the first item of smaller count, after every item of equal count.
Place(sorted, item) ==
    LET smaller == {p \in 1..Len(sorted) : sorted[p].count < item.count}
    IN  IF smaller = {} THEN Len(sorted) + 1
        ELSE CHOOSE p \in smaller : \A q \in smaller : p <= q

RECURSIVE SortedByCount(_, _)
SortedByCount(items, n) ==
    IF n = 0 THEN << >>
    ELSE LET sorted == SortedByCount(items, n - 1)
         IN  InsertSeq(sorted, Place(sorted, items[n]), items[n])

most_common(counter) == SortedByCount(counter, Len(counter))

RECURSIVE SumCounts(_, _)
SumCounts(counter, n) ==
    IF n = 0 THEN 0 ELSE SumCounts(counter, n - 1) + counter[n].count

maintenance_suggestions(found) ==
    LET logs == Limit(found, MaintenanceLimit)
        causes == [i \in 1..Len(logs) |-> LogCause(logs[i])]
        cause_counter == Counter(causes)
        ranked == most_common(cause_counter)
    IN  IF causes = << >> THEN [message |-> MaintenanceNone]
        ELSE [maintenance_suggestions |->
                 [j \in 1..Len(ranked) |->
                     [probable_cause |-> ranked[j].cause,
                      occurrences |-> ranked[j].count,
                      recommended_action |-> fault_to_maintenance(ranked[j].cause)]],
              total_anomalies_analyzed |-> SumCounts(cause_counter, Len(cause_counter))]

\* Stored anomaly records: two with a cause, one (stored by simulate_fault)
\* without.  A history is a few runs of equal records, or the six records of
\* the documented example.
AnomalyLogs ==
    {[anomaly |-> PyTrue, probable_cause |-> CauseInjectorClog],
     [anomaly |-> PyTrue, probable_cause |-> CauseLeakOrPump],
     [anomaly |-> PyTrue]}
RunLengths == {1, 99}
Runs == {[log |-> l, times |-> n] : l \in AnomalyLogs, n \in RunLengths}

RECURSIVE Expand(_)
Expand(runs) ==
    IF runs = << >> THEN << >>
    ELSE [i \in 1..Head(runs).times |-> Head(runs).log] \o Expand(Tail(runs))

ExampleLogs ==
    LET A == [anomaly |-> PyTrue, probable_cause |-> CauseInjectorClog]
        B == [anomaly |-> PyTrue, probable_cause |-> CauseLeakOrPump]
        C == [anomaly |-> PyTrue]
    IN  <<A, B, A, C, A, B>>

AnomalyHistories ==
    {Expand(runs) : runs \in UNION {[1..n -> Runs] : n \in 0..MaxRuns}} \cup {ExampleLogs}

MaintPick ==
    /\ pc = "start"
    /\ \E found \in AnomalyHistories : arg' = found
    /\ pc' = "picked"
    /\ UNCHANGED <<heap, ret>>
    /\ UNCHANGED sysVars

MaintCall ==
    /\ pc = "picked"
    /\ ret' = maintenance_suggestions(arg)
    /\ pc' = "returned"
    /\ UNCHANGED <<heap, arg>>
    /\ UNCHANGED sysVars

MaintNext == MaintPick \/ MaintCall

SpecMaint == FnInit /\ [][MaintNext]_vars

\* ---- C12 ----
\* The most recent 100 anomaly records, as causes, and the first place of a cause.
WindowCauses(found) ==
    [i \in 1..(IF Len(found) < 100 THEN Len(found) ELSE 100) |-> LogCause(found[i])]

Occurrences(causes, c) == Cardinality({i \in 1..Len(causes) : causes[i] = c})

FirstSeen(causes, c) ==
    CHOOSE i \in 1..Len(causes) : causes[i] = c /\ \A j \in 1..(i - 1) : causes[j] # c

\* C12: over the most recent 100 anomaly records the aggregation returns one
\* entry per distinct cause, each count the number of records with that cause,
\* sorted by count descending, ties in first-seen order within the window; for
\* causes [A, B, A, C, A, B] the order is A(3), B(2), C(1).
C12_MaintenanceAggregation ==
    pc = "returned" /\ arg # << >> =>
        LET w == WindowCauses(arg)
            out == ret.maintenance_suggestions
        IN  /\ {out[j].probable_cause : j \in 1..Len(out)} = {w[i] : i \in 1..Len(w)}
            /\ \A j, k \in 1..Len(out) :
                  j # k => out[j].probable_cause # out[k].probable_cause
            /\ \A j \in 1..Len(out) :
                  out[j].occurrences = Occurrences(w, out[j].probable_cause)
            /\ \A j, k \in 1..Len(out) :
                  j < k =>
                     \/ out[j].occurrences > out[k].occurrences
                     \/ /\ out[j].occurrences = out[k].occurrences
                        /\ FirstSeen(w, out[j].probable_cause)
                              < FirstSeen(w, out[k].probable_cause)
            /\ arg = ExampleLogs =>
                  /\ [j \in 1..Len(out) |-> out[j].probable_cause]
                        = <<CauseInjectorClog, CauseLeakOrPump, "Unknown">>
                  /\ [j \in 1..Len(out) |-> out[j].occurrences] = <<3, 2, 1>>

\* The documented example has been aggregated to A(3), B(2), C(1).
C12_Witness ==
    /\ pc = "returned"
    /\ arg = ExampleLogs
    /\ Len(ret.maintenance_suggestions) = 3
    /\ ret.maintenance_suggestions[1].occurrences = 3
    /\ ret.maintenance_suggestions[3].probable_cause = "Unknown"

(***************************************************************************)
(* mqtt_publish_loop, one statement group at a time.  loopPc is the        *)
(* thread's position in the pass: "running" at the top of `while True:`,   *)
(* "publishing" with the sample built, "inserting" after                   *)
(* mqtt_client.publish, "sleeping" in time.sleep(10).  transport and       *)
(* storage record what the loop handed to mqtt_client.publish and to       *)
(* collection.insert_one.  clock is time passing: a later reading of       *)
(* datetime.now(timezone.utc) is not below an earlier one.                 *)
(***************************************************************************)
\* datetime.now(timezone.utc): an aware datetime.
UtcNow(now) == [instant |-> now, tzinfo |-> "UTC"]

\* datetime.isoformat() of an aware datetime, as jsonable_encoder renders it.
Isoformat(dt) ==
    [iso |-> dt.instant, offset |-> IF dt.tzinfo = "UTC" THEN "+00:00" ELSE ""]

\* jsonable_encoder on the flat dict: the datetime becomes its ISO string,
\* numbers, booleans, strings and None stay.
jsonable_encoder(t) ==
    [k \in DOMAIN t |-> IF k = "timestamp" THEN Isoformat(t[k]) ELSE t[k]]

\* The dict of one pass, timestamp included.
LoopSample(d, m, pred, now) ==
    SetKey(LoopRecord(d, m, pred), "timestamp", UtcNow(now))

\* simulate_fuel_system() down to the end of the if/else on `model`.
LoopProduce ==
    /\ loopPc = "running"
    /\ Len(samples) < MaxTicks
    /\ \E d \in PipelineDraws, pred \in PredictionsOf(model) :
          /\ loopTelemetry' = LoopSample(d, model, pred, clock)
          /\ samples' = Append(samples, loopTelemetry')
    /\ loopPc' = "publishing"
    /\ UNCHANGED <<model, modelFile, retrains, nStored, outcome>>
    /\ UNCHANGED <<clock, transport, storage>>
    /\ UNCHANGED fnVars

\* payload = json.dumps({...}); mqtt_client.publish(TOPIC, payload)
LoopPublish ==
    /\ loopPc = "publishing"
    /\ transport' = Append(transport, MqttPayload(loopTelemetry))
    /\ loopPc' = "inserting"
    /\ UNCHANGED <<model, modelFile, retrains, nStored, outcome>>
    /\ UNCHANGED <<clock, loopTelemetry, storage, samples>>
    /\ UNCHANGED fnVars

\* A variant that catches the exception of insert_one and goes on.
LoopInsertAndCarryOn ==
    /\ loopPc = "inserting"
    /\ \E fault \in StorageResults :
          /\ Insert(fault)
          /\ storage' = IF fault = "none"
                        THEN Append(storage, jsonable_encoder(loopTelemetry))
                        ELSE storage
    /\ loopPc' = "sleeping"
    /\ UNCHANGED <<model, modelFile, retrains, outcome>>
    /\ UNCHANGED <<clock, loopTelemetry, transport, samples>>
    /\ UNCHANGED fnVars

\* collection.insert_one(jsonable_encoder(telemetry)): stores the document,
\* or raises, and the exception ends the thread.
LoopInsert ==
    /\ loopPc = "inserting"
    /\ \E fault \in StorageResults :
          /\ Insert(fault)
          /\ storage' = IF fault = "none"
                        THEN Append(storage, jsonable_encoder(loopTelemetry))
                        ELSE storage
          /\ loopPc' = IF fault = "none" THEN "sleeping" ELSE "dead"
    /\ UNCHANGED <<model, modelFile, retrains, outcome>>
    /\ UNCHANGED <<clock, loopTelemetry, transport, samples>>
    /\ UNCHANGED fnVars

\* time.sleep(10): at least ten seconds pass before the next pass.
LoopSleep ==
    /\ loopPc = "sleeping"
    /\ \E lag \in 0..MaxLag : clock' = clock + SleepSeconds + lag
    /\ loopPc' = "running"
    /\ UNCHANGED <<model, modelFile, retrains, nStored, outcome>>
    /\ UNCHANGED <<loopTelemetry, transport, storage, samples>>
    /\ UNCHANGED fnVars

LoopNext ==
    \/ StartBackgroundMqtt
    \/ LoopConnect
    \/ LoopProduce
    \/ LoopPublish
    \/ LoopInsert
    \/ LoopSleep

SpecLoop == Init /\ [][LoopNext]_vars

\* ---- C11 ----
\* C11: the loop produces and hands over its samples in order, without
\* reordering or batching: when sample j is produced every sample i < j has
\* been published and inserted, each exactly once, in the order of production,
\* and the timestamps stored are non-decreasing in hand-off order.
C11_LoopHandsOverInOrder ==
    LET n == Len(samples)
    IN  /\ Len(transport) <= n
        /\ Len(storage) <= Len(transport)
        /\ n > 0 => Len(storage) >= n - 1
        /\ loopPc = "publishing" => Len(transport) = n - 1 /\ Len(storage) = n - 1
        /\ loopPc \in {"running", "sleeping"} => Len(transport) = n /\ Len(storage) = n
        /\ \A i \in 1..Len(transport) : transport[i] = MqttPayload(samples[i])
        /\ \A i \in 1..Len(storage) : storage[i] = jsonable_encoder(samples[i])
        /\ \A i, j \in 1..Len(storage) :
              i < j => storage[i].timestamp.iso <= storage[j].timestamp.iso

\* Two passes are through: both samples are at the transport and in storage,
\* the second stamped after the first.
C11_Witness ==
    /\ Len(samples) = 2
    /\ Len(transport) = 2
    /\ Len(storage) = 2
    /\ loopPc = "running"
    /\ storage[1].timestamp.iso < storage[2].timestamp.iso
    /\ storage[2] = jsonable_encoder(samples[2])

====
